---- MODULE Spec2Model ----
(***************************************************************************)
(* Model of delta/utils/loss/loss_utils.py: the five loss functions        *)
(* cross_entropy, ctc_lambda_loss, crf_log_likelihood, mask_sequence_loss  *)
(* and arcface_loss, called in any order by a training program against     *)
(* one TensorFlow (1.x, graph mode) variable store.                        *)
(*                                                                         *)
(* A tensor is a record [shape, data]: its dimensions and its elements in  *)
(* row-major order.  Indices are 0-based as in the source; data, a TLA+    *)
(* sequence, is 1-based.                                                   *)
(*                                                                         *)
(* Real arithmetic has no TLA+ form.  The log-domain kernels (softmax      *)
(* cross-entropy, CTC, CRF) are computed over integer scores in base 2     *)
(* with logarithms rounded down; arcface_loss is computed in fixed point   *)
(* with Scale units per 1.0, every product, quotient and root rounded.     *)
(***************************************************************************)
EXTENDS Integers, Sequences, FiniteSets, TLC

VARIABLES
  store,   \* the framework's variable store: variable name -> tensor
  reuse,   \* the reuse mode of the variable scope the program runs in
  call     \* the last call made: function, arguments, outcome

vars == <<store, reuse, call>>

\* ------------------------------------------------------------------ bounds
MaxBatch == 2

\* ----------------------------------------------------------------- tensors
\* Python's None.
None == [none |-> TRUE]

RECURSIVE NumElements(_)
NumElements(shape) ==
  IF shape = <<>> THEN 1 ELSE Head(shape) * NumElements(Tail(shape))

\* the tensor of the given shape whose element of flat index i is f(i)
Tensor(shape, f(_)) ==
  [shape |-> shape, data |-> <<>> \o [i \in 1..NumElements(shape) |-> f(i - 1)]]

Scalar(v) == [shape |-> <<>>, data |-> <<v>>]

\* tf.rank
Rank(t) == Len(t.shape)

\* flat index -> multi-index, and back
RECURSIVE Unravel(_, _)
Unravel(i, shape) ==
  IF shape = <<>> THEN <<>>
  ELSE LET rest == NumElements(Tail(shape))
       IN  <<i \div rest>> \o Unravel(i % rest, Tail(shape))

RECURSIVE Ravel(_, _)
Ravel(idx, shape) ==
  IF shape = <<>> THEN 0
  ELSE Head(idx) * NumElements(Tail(shape)) + Ravel(Tail(idx), Tail(shape))

At(t, idx) == t.data[Ravel(idx, t.shape) + 1]

\* tf.squeeze with no axis: every dimension of size 1 is removed.
Squeeze(t) == [shape |-> SelectSeq(t.shape, LAMBDA d : d # 1), data |-> t.data]

\* tf.cond(tf.equal(tf.rank(x), 1), lambda: x, lambda: tf.squeeze(x))
SqueezeUnlessRank1(x) == IF Rank(x) = 1 THEN x ELSE Squeeze(x)

\* --------------------------------------------------------------- outcomes
Ok(v, st) == [status |-> "ok", value |-> v, store |-> st]
Raise(e, st) == [status |-> e, value |-> None, store |-> st]

\* ------------------------------------------------------- base-2 logarithms
RECURSIVE Pow2(_)
Pow2(n) == IF n <= 0 THEN 1 ELSE 2 * Pow2(n - 1)

RECURSIVE FloorLog2(_)
FloorLog2(n) == IF n <= 1 THEN 0 ELSE 1 + FloorLog2(n \div 2)

RECURSIVE SumSeq(_)
SumSeq(s) == IF s = <<>> THEN 0 ELSE Head(s) + SumSeq(Tail(s))

\* the loss of an impossible alignment (the kernel's +inf)
Inf == Pow2(20)

\* -------------------------------------------------------- ctc_lambda_loss
\* CTC's collapse of an alignment: merge repeats, then drop blanks.
RECURSIVE MergeRepeats(_)
MergeRepeats(s) ==
  IF Len(s) <= 1 THEN s
  ELSE IF s[1] = s[2] THEN MergeRepeats(Tail(s))
       ELSE <<s[1]>> \o MergeRepeats(Tail(s))

Collapse(s, blank) == SelectSeq(MergeRepeats(s), LAMBDA k : k # blank)

\* tf.nn.ctc_loss_v2 for one example: minus the log of the probability that
\* the first `tlen` frames emit the first `llen` labels.
CtcExample(logits, labels, b, tlen, llen, blank) ==
  LET D == logits.shape[3]
      target == [j \in 1..llen |-> At(labels, <<b, j - 1>>)]
      score(pi) == SumSeq([t \in 1..tlen |-> At(logits, <<b, t - 1, pi[t]>>)])
      paths == {pi \in [1..tlen -> 0..(D - 1)] : Collapse(pi, blank) = target}
      RECURSIVE Total(_)
      Total(S) == IF S = {} THEN 0
                  ELSE LET pi == CHOOSE p \in S : TRUE
                       IN  Pow2(score(pi)) + Total(S \ {pi})
      all == [1..tlen -> 0..(D - 1)]
  IN  IF paths = {} THEN Inf ELSE FloorLog2(Total(all) \div Total(paths))

\* tf.nn.ctc_loss_v2(labels, logits, label_length, logit_length,
\*                   logits_time_major=False, blank_index): one loss per example.
ctc_loss_v2(labels, logits, olen, ilen, blank) ==
  LET B == logits.shape[1]
  IN  Tensor(<<B>>, LAMBDA b : CtcExample(logits, labels, b, ilen.data[b + 1],
                                          olen.data[b + 1], blank))

\* The rank assertions are control dependencies of the loss: a failed one
\* raises InvalidArgumentError when the loss is evaluated.
ctc_lambda_loss(logits, labels, input_length, label_length, blank_index, st) ==
  LET ilen == SqueezeUnlessRank1(input_length)
      olen == SqueezeUnlessRank1(label_length)
      deps == /\ Rank(labels) = 2
              /\ Rank(logits) = 3
              /\ Rank(ilen) = 1
              /\ Rank(olen) = 1
  IN  IF ~deps THEN Raise("InvalidArgumentError", st)
      ELSE Ok(ctc_loss_v2(labels, logits, olen, ilen, blank_index), st)

\* ---------------------------------------------------------- variable store
ReuseModes == {"False", "True", "AUTO_REUSE"}

Has(st, name) == name \in DOMAIN st

Put(st, name, v) == [n \in DOMAIN st \cup {name} |-> IF n = name THEN v ELSE st[n]]

\* tf.get_variable(name, shape, initializer) in a scope of reuse mode `mode`;
\* `init` is the value the (random) initializer gives a new variable.
get_variable(name, shape, init, st, mode) ==
  IF Has(st, name)
  THEN IF mode = "False" THEN Raise("ValueError", st)        \* already exists
       ELSE IF st[name].shape # shape THEN Raise("ValueError", st)
       ELSE Ok(st[name], st)
  ELSE IF mode = "True" THEN Raise("ValueError", st)         \* does not exist
       ELSE Ok(init, Put(st, name, init))

\* ------------------------------------------------------ crf_log_likelihood
\* the mean of a tensor's elements, kept exact as numerator and denominator
reduce_mean(t) == [num |-> SumSeq(t.data), den |-> Len(t.data)]

Negate(t) == Tensor(t.shape, LAMBDA i : 0 - t.data[i + 1])

\* the score of one tag sequence: its unary scores and its transitions
PathScore(inputs, b, path, trans) ==
  SumSeq([t \in 1..Len(path) |-> At(inputs, <<b, t - 1, path[t]>>)])
  + SumSeq([t \in 1..(Len(path) - 1) |-> At(trans, <<path[t], path[t + 1]>>)])

\* tf.contrib.crf: sequence score minus the log of the sum over all tag
\* sequences of the same length.
CrfExample(inputs, tags, b, len, trans) ==
  LET K == inputs.shape[3]
      gold == [t \in 1..len |-> At(tags, <<b, t - 1>>)]
      RECURSIVE Total(_)
      Total(S) == IF S = {} THEN 0
                  ELSE LET p == CHOOSE q \in S : TRUE
                       IN  Pow2(PathScore(inputs, b, p, trans)) + Total(S \ {p})
  IN  0 - FloorLog2(Total([1..len -> 0..(K - 1)])
                    \div Pow2(PathScore(inputs, b, gold, trans)))

\* tf.contrib.crf.crf_log_likelihood(inputs, tag_indices, sequence_lengths,
\* transition_params): (log_likelihood, transition_params); the transition
\* matrix is a variable of the store when none is passed.
tf_crf_log_likelihood(inputs, tags, lens, transitions, init, st, mode) ==
  LET K == inputs.shape[3]
      var == IF transitions = None
             THEN get_variable("transitions", <<K, K>>, init, st, mode)
             ELSE Ok(transitions, st)
      trans == var.value
      B == inputs.shape[1]
  IN  IF var.status # "ok" THEN var
      ELSE Ok([log_likelihood |->
                 Tensor(<<B>>, LAMBDA b : CrfExample(inputs, tags, b, lens.data[b + 1],
                                                     trans)),
               transition_params |-> trans],
              var.store)

\* the slip of averaging the log-likelihood without negating it
crf_loss_not_negated(log_likelihood) == reduce_mean(log_likelihood)

\* line 109
crf_loss(log_likelihood) == reduce_mean(Negate(log_likelihood))

crf_log_likelihood(tags_scores, labels, input_length, transitions, init, st, mode) ==
  LET r == tf_crf_log_likelihood(tags_scores, labels, input_length, transitions,
                                 init, st, mode)
  IN  IF r.status # "ok" THEN r
      ELSE Ok([loss |-> crf_loss(r.value.log_likelihood),
               transition_params |-> r.value.transition_params],
              r.store)

\* ------------------------------------------------- fixed-point arithmetic
\* units per 1.0
Scale == 10 * 10 * 10

Abs(x) == IF x < 0 THEN 0 - x ELSE x

\* integer quotient rounded toward zero
Quot(a, b) ==
  IF (a < 0) = (b < 0) THEN Abs(a) \div Abs(b) ELSE 0 - (Abs(a) \div Abs(b))

FMul(a, b) == Quot(a * b, Scale)
FDiv(a, b) == Quot(a * Scale, b)

RECURSIVE RootBetween(_, _, _)
RootBetween(n, lo, hi) ==
  IF lo >= hi THEN lo
  ELSE LET mid == (lo + hi + 1) \div 2
       IN  IF mid * mid <= n THEN RootBetween(n, mid, hi)
           ELSE RootBetween(n, lo, mid - 1)

\* the square root, rounded down
FSqrt(a) == RootBetween(a * Scale, 0, IF a >= Scale THEN a ELSE Scale)

\* ------------------------------------------------------------ broadcasting
Max(a, b) == IF a >= b THEN a ELSE b

PadLeft(shape, n) == [i \in 1..(n - Len(shape)) |-> 1] \o shape

Broadcastable(sa, sb) ==
  LET n == Max(Len(sa), Len(sb))
      pa == PadLeft(sa, n)
      pb == PadLeft(sb, n)
  IN  \A i \in 1..n : pa[i] = pb[i] \/ pa[i] = 1 \/ pb[i] = 1

BroadcastShape(sa, sb) ==
  LET n == Max(Len(sa), Len(sb))
      pa == PadLeft(sa, n)
      pb == PadLeft(sb, n)
  IN  [i \in 1..n |-> IF pa[i] = 1 THEN pb[i] ELSE pa[i]]

\* the element of t that a broadcast to a result of index idx reads
BAt(t, idx) ==
  LET k == Len(idx) - Rank(t)
  IN  At(t, [j \in 1..Rank(t) |-> IF t.shape[j] = 1 THEN 0 ELSE idx[k + j]])

\* the elementwise binary operators, on two elements
Binary(op, x, y) ==
  CASE op = "add" -> x + y
    [] op = "subtract" -> x - y
    [] op = "multiply" -> FMul(x, y)
    [] op = "div" -> FDiv(x, y)
    [] op = "second" -> y

\* an elementwise binary operator, its operands broadcast against each other
Map2(op, a, b) ==
  IF a.shape = b.shape
  THEN Tensor(a.shape, LAMBDA i : Binary(op, a.data[i + 1], b.data[i + 1]))
  ELSE IF b.shape = <<>>
  THEN Tensor(a.shape, LAMBDA i : Binary(op, a.data[i + 1], b.data[1]))
  ELSE IF a.shape = <<>>
  THEN Tensor(b.shape, LAMBDA i : Binary(op, a.data[1], b.data[i + 1]))
  ELSE LET shape == BroadcastShape(a.shape, b.shape)
       IN  Tensor(shape, LAMBDA i : LET idx == Unravel(i, shape)
                                    IN  Binary(op, BAt(a, idx), BAt(b, idx)))

\* tf.sqrt
Sqrt(a) == Tensor(a.shape, LAMBDA i : FSqrt(a.data[i + 1]))

\* tf.cast(tf.nn.relu(a), tf.bool): true (1) where a is positive
ReluAsBool(a) == Tensor(a.shape, LAMBDA i : IF a.data[i + 1] > 0 THEN 1 ELSE 0)

\* tf.where(cond, x, y) of three tensors of one shape
Where(cond, x, y) ==
  Tensor(x.shape, LAMBDA i : IF cond.data[i + 1] > 0 THEN x.data[i + 1] ELSE y.data[i + 1])

Add(a, b) == Map2("add", a, b)
Subtract(a, b) == Map2("subtract", a, b)
Multiply(a, b) == Map2("multiply", a, b)
Div(a, b) == Map2("div", a, b)

\* tf.norm(t, axis, keep_dims=True) of a matrix
Norm(t, axis) ==
  LET rows == t.shape[1]
      cols == t.shape[2]
      sq(i, j) == FMul(At(t, <<i, j>>), At(t, <<i, j>>))
  IN  IF axis = 1
      THEN Tensor(<<rows, 1>>,
                  LAMBDA i : FSqrt(SumSeq([j \in 1..cols |-> sq(i, j - 1)])))
      ELSE Tensor(<<1, cols>>,
                  LAMBDA j : FSqrt(SumSeq([i \in 1..rows |-> sq(i - 1, j)])))

\* tf.matmul of two matrices
MatMul(a, b) ==
  LET n == a.shape[2]
      cols == b.shape[2]
  IN  Tensor(<<a.shape[1], cols>>,
             LAMBDA i : SumSeq([k \in 1..n |->
                          FMul(At(a, <<i \div cols, k - 1>>),
                               At(b, <<k - 1, i % cols>>))]))

\* tf.one_hot(indices, depth): a new innermost axis of `depth` entries
OneHot(indices, depth, on) ==
  Tensor(indices.shape \o <<depth>>,
         LAMBDA i : IF indices.data[(i \div depth) + 1] = i % depth THEN on ELSE 0)

\* ------------------------------------------------------------ arcface_loss
\* s = 64., m = 0.5 and math.pi, in fixed point
DefaultS == 64000
DefaultM == 500
Pi == 3142

\* math.cos and math.sin at the angles arcface_loss asks for
MathCos(x) == CASE x = DefaultM -> 878
                [] x = Pi - DefaultM -> 0 - 878
MathSin(x) == CASE x = DefaultM -> 479

\* lines 163-173: the cosine of the angle between every embedding and every
\* class weight
arcface_cos_t(embedding0, weights0) ==
  LET embedding_norm == Norm(embedding0, 1)
      embedding == Div(embedding0, embedding_norm)
      weights_norm == Norm(weights0, 0)
      weights == Div(weights0, weights_norm)
  IN  MatMul(embedding, weights)

\* lines 157-160 and 174-190: s * cos(theta + m), kept within [0, pi]
arcface_cos_mt_temp(cos_t, s, m, limit_to_pi) ==
  LET cos_m == MathCos(m)
      sin_m == MathSin(m)
      mm == FMul(sin_m, m)
      threshold == MathCos(Pi - m)
      cos_t2 == Multiply(cos_t, cos_t)
      sin_t2 == Subtract(Scalar(Scale), cos_t2)
      sin_t == Sqrt(sin_t2)
      cos_mt == Multiply(Scalar(s),
                         Subtract(Multiply(cos_t, Scalar(cos_m)),
                                  Multiply(sin_t, Scalar(sin_m))))
      cond_v == Subtract(cos_t, Scalar(threshold))
      cond == ReluAsBool(cond_v)
      keep_val == Multiply(Scalar(s), Subtract(cos_t, Scalar(mm)))
  IN  IF limit_to_pi THEN Where(cond, cos_mt, keep_val) ELSE cos_mt

\* line 192: the one-hot mask of the labels; no axis of it is squeezed away
arcface_mask(labels, out_num) == OneHot(labels, out_num, Scale)

\* the slip of asking the store for the weights whether or not any are passed
arcface_weights_always_variable(weights, dim, out_num, init, st, mode) ==
  get_variable("arcface_loss/weights", <<dim, out_num>>, init, st, mode)

\* lines 161 and 165-169: the weights passed, or the variable 'weights' of the
\* variable scope 'arcface_loss'
arcface_weights(weights, dim, out_num, init, st, mode) ==
  IF weights = None
  THEN get_variable("arcface_loss/weights", <<dim, out_num>>, init, st, mode)
  ELSE Ok(weights, st)

arcface_loss(embedding, labels, out_num, weights, s, m, limit_to_pi, init, st, mode) ==
  LET var == arcface_weights(weights, embedding.shape[Rank(embedding)], out_num,
                             init, st, mode)
  IN  IF var.status # "ok" THEN var
      ELSE
      LET cos_t == arcface_cos_t(embedding, var.value)
          cos_mt_temp == arcface_cos_mt_temp(cos_t, s, m, limit_to_pi)
          mask == arcface_mask(labels, out_num)
          inv_mask == Subtract(Scalar(Scale), mask)
          s_cos_t == Multiply(Scalar(s), cos_t)
      IN  IF ~Broadcastable(s_cos_t.shape, mask.shape) THEN Raise("ValueError", var.store)
          ELSE Ok(Add(Multiply(s_cos_t, inv_mask), Multiply(cos_mt_temp, mask)),
                  var.store)

\* ---------------------------------------- cross_entropy, mask_sequence_loss
\* tf.sequence_mask(lengths): entry t of row b is 1 while t < lengths[b]; the
\* rows are as long as the longest length.
SequenceMask(lengths) ==
  LET maxlen == CHOOSE n \in {lengths.data[i] : i \in DOMAIN lengths.data} :
                  \A i \in DOMAIN lengths.data : lengths.data[i] <= n
  IN  Tensor(lengths.shape \o <<maxlen>>,
             LAMBDA i : IF i % maxlen < lengths.data[(i \div maxlen) + 1] THEN 1 ELSE 0)

\* utils.len_to_mask(length): the sequence mask of the lengths
len_to_mask(length) == SequenceMask(length)

\* the shape without its innermost axis
Outer(shape) == SubSeq(shape, 1, Len(shape) - 1)

\* softmax cross-entropy of every innermost row of logits against the same
\* row of (dense) labels
SoftmaxCrossEntropyWithLogits(onehot_labels, logits) ==
  LET V == logits.shape[Rank(logits)]
      z(r) == SumSeq([k \in 1..V |-> Pow2(logits.data[r * V + k])])
  IN  Tensor(Outer(logits.shape),
             LAMBDA r : SumSeq([k \in 1..V |->
                          onehot_labels.data[r * V + k]
                          * FloorLog2(z(r) \div Pow2(logits.data[r * V + k]))]))

\* tf.losses.compute_weighted_loss under Reduction.SUM_BY_NONZERO_WEIGHTS:
\* the weighted sum over the number of elements whose weight is not zero
ComputeWeightedLoss(losses, weights) ==
  LET w == Map2("second", losses, weights)
      present == Cardinality({i \in DOMAIN w.data : w.data[i] # 0})
  IN  IF present = 0 THEN [num |-> 0, den |-> 1]
      ELSE [num |-> SumSeq([i \in DOMAIN w.data |-> losses.data[i] * w.data[i]]),
            den |-> present]

\* weights must have rank 0, or the rank of the losses with every dimension
\* equal to theirs or 1
WeightsBroadcastable(ws, ls) ==
  \/ ws = <<>>
  \/ /\ Len(ws) = Len(ls)
     /\ \A i \in 1..Len(ls) : ws[i] = ls[i] \/ ws[i] = 1

\* tf.losses.softmax_cross_entropy(onehot_labels, logits, weights,
\* label_smoothing=0, reduction=SUM_BY_NONZERO_WEIGHTS)
softmax_cross_entropy(onehot_labels, logits, weights, st) ==
  IF onehot_labels.shape # logits.shape THEN Raise("ValueError", st)
  ELSE IF ~WeightsBroadcastable(weights.shape, Outer(logits.shape))
       THEN Raise("ValueError", st)
  ELSE Ok(ComputeWeightedLoss(SoftmaxCrossEntropyWithLogits(onehot_labels, logits),
                              weights), st)

\* smoothing and reduction are left at their defaults (0.0 and
\* SUM_BY_NONZERO_WEIGHTS); input_length is deleted unread.
cross_entropy(logits, labels, input_length, label_length, st) ==
  LET onehot_labels == IF Rank(logits) - Rank(labels) = 1
                       THEN OneHot(labels, logits.shape[Rank(logits)], 1)
                       ELSE labels
      weights == IF label_length # None THEN len_to_mask(label_length) ELSE Scalar(1)
  IN  softmax_cross_entropy(onehot_labels, logits, weights, st)

\* tf.contrib.seq2seq.sequence_loss(logits, targets, weights), averaged across
\* timesteps and batch: the weighted cross-entropy over the sum of the weights
sequence_loss(logits, targets, weights, weights_dtype, st) ==
  IF Rank(logits) # 3 \/ Rank(targets) # 2 \/ Rank(weights) # 2
  THEN Raise("ValueError", st)
  ELSE IF weights_dtype # "float32" THEN Raise("TypeError", st)
  ELSE IF NumElements(weights.shape) # NumElements(targets.shape)
       THEN Raise("InvalidArgumentError", st)
  ELSE LET crossent == SoftmaxCrossEntropyWithLogits(
                         OneHot(targets, logits.shape[3], 1), logits)
           total == SumSeq(weights.data)
       IN  Ok(IF total = 0 THEN [num |-> 0, den |-> 1]
              ELSE [num |-> SumSeq([i \in DOMAIN weights.data |->
                                     crossent.data[i] * weights.data[i]]),
                    den |-> total], st)

\* smoothing and input_length are deleted unread.  Without label_length the
\* weights are tf.ones_like(labels), of the labels' integer type, which the
\* float cross-entropy cannot be multiplied by.
mask_sequence_loss(logits, labels, input_length, label_length, st) ==
  LET weights == IF label_length # None THEN len_to_mask(label_length)
                 ELSE Tensor(labels.shape, LAMBDA i : 1)
      weights_dtype == IF label_length # None THEN "float32" ELSE "int32"
  IN  sequence_loss(logits, labels, weights, weights_dtype, st)

\* ------------------------------------------------------------------ inputs
\* Every tensor has rows of two entries (two classes, tags or dimensions) and
\* sequences of two steps; the batch size B ranges over 1..MaxBatch.
Layouts == {"vector", "column"}            \* shape (B,) and shape (B, 1)

\* a tensor of B entries in the given layout
PerExample(B, layout, f(_)) ==
  Tensor(IF layout = "vector" THEN <<B>> ELSE <<B, 1>>, f)

Logits(shape) == Tensor(shape, LAMBDA i : 2 * (i % 3))
Labels(shape) == Tensor(shape, LAMBDA i : i % 2)

\* the transition matrix a caller passes, and those get_variable's default
\* (random) initializer may draw
Transitions == {Tensor(<<2, 2>>, LAMBDA i : (i + 1) % 2)}
TransitionDraws == {Tensor(<<2, 2>>, LAMBDA i : 0), Tensor(<<2, 2>>, LAMBDA i : i % 2)}

\* embeddings of two dimensions (in fixed point), no row of norm zero
EmbeddingRows == << <<0, -2000>>, <<1000, 0>>, <<-1000, 1000>> >>

\* the weight matrix (in fixed point) a caller passes, and those the xavier
\* (random) initializer may draw
Weights == {[shape |-> <<2, 2>>, data |-> <<1000, -1000, 1000, 1000>>]}
XavierDraws == {[shape |-> <<2, 2>>, data |-> <<1000, 0, 0, 1000>>],
                [shape |-> <<2, 2>>, data |-> <<-1000, 2000, 1000, 1000>>]}

\* the value an initializer draws matters only when a variable is asked for
Drawn(given, init, S) == given = None \/ init = CHOOSE v \in S : TRUE

\* ----------------------------------------------------------------- actions
NoCall == [op |-> "none", args |-> None, status |-> "ok", value |-> None]

\* a call returns (or raises): it is recorded, and the store is as it left it
Returns(op, args, out) ==
  /\ call' = [op |-> op, args |-> args, status |-> out.status, value |-> out.value]
  /\ store' = out.store

CrossEntropy ==
  \E B \in 1..MaxBatch, sequences \in BOOLEAN :
    LET args == IF sequences
                THEN [logits |-> Logits(<<B, 2, 2>>),
                      labels |-> Labels(<<B, 2>>),
                      input_length |-> None,
                      label_length |-> Tensor(<<B>>, LAMBDA i : 2 - (i % 2))]
                ELSE [logits |-> Logits(<<B, 2>>),
                      labels |-> Labels(<<B>>),
                      input_length |-> None,
                      label_length |-> None]
    IN  /\ UNCHANGED reuse
        /\ Returns("cross_entropy", args,
                   cross_entropy(args.logits, args.labels, args.input_length,
                     args.label_length, store))

CtcLambdaLoss ==
  \E B \in 1..MaxBatch, ilayout \in Layouts, olayout \in Layouts :
    LET args == [logits |-> Logits(<<B, 2, 2>>),
                 labels |-> Tensor(<<B, 2>>, LAMBDA i : (i + 1) % 2),   \* 0 pads
                 input_length |-> PerExample(B, ilayout, LAMBDA i : 2 - (i % 2)),
                 label_length |-> PerExample(B, olayout, LAMBDA i : (i + 1) % 2),
                 blank_index |-> 0]
    IN  /\ UNCHANGED reuse
        /\ Returns("ctc_lambda_loss", args,
                   ctc_lambda_loss(args.logits, args.labels, args.input_length,
                     args.label_length, args.blank_index, store))

CrfLogLikelihood ==
  \E B \in 1..MaxBatch, transitions \in Transitions \cup {None},
     init \in TransitionDraws :
    LET args == [tags_scores |-> Logits(<<B, 2, 2>>),
                 labels |-> Labels(<<B, 2>>),
                 input_length |-> Tensor(<<B>>, LAMBDA i : 2 - (i % 2)),
                 transitions |-> transitions]
    IN  /\ Drawn(transitions, init, TransitionDraws)
        /\ Returns("crf_log_likelihood", args,
                   crf_log_likelihood(args.tags_scores, args.labels, args.input_length,
                     args.transitions, init, store, reuse))
        /\ UNCHANGED reuse

MaskSequenceLoss ==
  \E B \in 1..MaxBatch, masked \in BOOLEAN :
    LET args == [logits |-> Logits(<<B, 2, 2>>),
                 labels |-> Labels(<<B, 2>>),
                 input_length |-> Tensor(<<B>>, LAMBDA i : 2),
                 label_length |-> IF masked THEN Tensor(<<B>>, LAMBDA i : 2 - (i % 2))
                                  ELSE None]
    IN  /\ UNCHANGED reuse
        /\ Returns("mask_sequence_loss", args,
                   mask_sequence_loss(args.logits, args.labels, args.input_length,
                     args.label_length, store))

ArcfaceLoss ==
  \E B \in 1..MaxBatch, layout \in Layouts, weights \in Weights \cup {None},
     init \in XavierDraws, limit_to_pi \in BOOLEAN :
    LET args == [embedding |->
                   Tensor(<<B, 2>>,
                          LAMBDA i : EmbeddingRows[1 + ((i \div 2) % 3)][1 + (i % 2)]),
                 labels |-> PerExample(B, layout, LAMBDA i : (i + 1) % 2),
                 out_num |-> 2,
                 weights |-> weights,
                 s |-> DefaultS,
                 m |-> DefaultM,
                 limit_to_pi |-> limit_to_pi]
    IN  /\ Drawn(weights, init, XavierDraws)
        /\ Returns("arcface_loss", args,
                   arcface_loss(args.embedding, args.labels, args.out_num, args.weights,
                     args.s, args.m, args.limit_to_pi, init, store, reuse))
        /\ UNCHANGED reuse

Init ==
  /\ store = <<>>
  /\ reuse \in ReuseModes
  /\ call = NoCall

Next ==
  \/ ArcfaceLoss
  \/ CrfLogLikelihood
  \/ CtcLambdaLoss
  \/ CrossEntropy
  \/ MaskSequenceLoss

Spec == Init /\ [][Next]_vars

\* ------------------------------------------------------------------ claims
\* the call asks the framework to create (or look up) the parameter itself
CreatesParameter(c) ==
  \/ c.op = "arcface_loss" /\ c.args.weights = None
  \/ c.op = "crf_log_likelihood" /\ c.args.transitions = None

\* the variable such a call asks for
ParameterName(c) == IF c.op = "arcface_loss" THEN "arcface_loss/weights" ELSE "transitions"

\* the outcome of the call c made against store st in a scope of mode `mode`,
\* an initializer drawing `init`
Outcome(c, init, st, mode) ==
  LET a == c.args
  IN  CASE c.op = "cross_entropy" ->
             cross_entropy(a.logits, a.labels, a.input_length, a.label_length, st)
        [] c.op = "ctc_lambda_loss" ->
             ctc_lambda_loss(a.logits, a.labels, a.input_length, a.label_length,
                             a.blank_index, st)
        [] c.op = "crf_log_likelihood" ->
             crf_log_likelihood(a.tags_scores, a.labels, a.input_length, a.transitions,
                                init, st, mode)
        [] c.op = "mask_sequence_loss" ->
             mask_sequence_loss(a.logits, a.labels, a.input_length, a.label_length, st)
        [] c.op = "arcface_loss" ->
             arcface_loss(a.embedding, a.labels, a.out_num, a.weights, a.s, a.m,
                          a.limit_to_pi, init, st, mode)

SameResult(c, out) == c.status = out.status /\ c.value = out.value

\* the call c with the parameter it asked for passed as v
WithParameter(c, v) ==
  IF c.op = "arcface_loss" THEN [c EXCEPT !.args.weights = v]
  ELSE [c EXCEPT !.args.transitions = v]

\* C1 as stated: every call leaves the variable store unchanged, and a call
\* repeated with the same arguments gives the same result -- arcface_loss with
\* weights=None included, once or repeatedly.
C1_Stateless ==
  [][/\ store' = store
     /\ (call.op = call'.op /\ call.args = call'.args)
          => (call'.status = call.status /\ call'.value = call.value)]_vars

\* C1 amended: a call that passes its parameters leaves the variable store
\* unchanged and its result is the one the same arguments give against an empty
\* store in any scope; a call that asks for its parameter (arcface_loss with
\* weights=None, crf_log_likelihood with transitions=None) changes the store
\* only by adding that variable, which it does when the variable is new, its
\* result is the one the stored variable gives when passed, and it raises
\* ValueError when the variable exists in a scope that does not reuse.
C1_StatelessUnlessParameterCreated ==
  [][LET c == call'
         name == ParameterName(c)
     IN  /\ ~CreatesParameter(c) =>
              /\ store' = store
              /\ SameResult(c, Outcome(c, None, <<>>, "True"))
         /\ CreatesParameter(c) =>
              /\ \/ store' = store
                 \/ /\ ~Has(store, name)
                    /\ c.status = "ok"
                    /\ DOMAIN store' = DOMAIN store \cup {name}
                    /\ \A n \in DOMAIN store : store'[n] = store[n]
              /\ (~Has(store, name) /\ reuse # "True") => (c.status = "ok" /\ Has(store', name))
              /\ c.status = "ok" =>
                   /\ Has(store', name)
                   /\ SameResult(c, Outcome(WithParameter(c, store'[name]), None, <<>>, "True"))
              /\ (Has(store, name) /\ reuse = "False") => c.status = "ValueError"]_vars

\* C1's case: arcface_loss was called with weights=None, created its weights in
\* the store, and the store holds the transitions of a CRF call besides.
C1_Witness ==
  /\ call.op = "arcface_loss"
  /\ call.args.weights = None
  /\ call.status = "ok"
  /\ Has(store, "arcface_loss/weights")
  /\ Has(store, "transitions")

\* C2: ctc_lambda_loss normalises input_length and label_length, of shape (B, 1)
\* or (B,), to rank-1 tensors of B elements for every batch size B >= 1, so its
\* rank assertions hold and the loss is computed.
C2_LengthsNormalised ==
  call.op = "ctc_lambda_loss" =>
    LET B == call.args.logits.shape[1]
    IN  /\ SqueezeUnlessRank1(call.args.input_length).shape = <<B>>
        /\ SqueezeUnlessRank1(call.args.label_length).shape = <<B>>
        /\ call.status = "ok"

\* C3: the loss ctc_lambda_loss returns, for logits (B, T, D) and labels (B, T),
\* is a scalar.
C3_ScalarLoss ==
  (call.op = "ctc_lambda_loss" /\ call.status = "ok") => call.value.shape = <<>>

\* C4: arcface_loss called with labels of shape (batch_size, 1) returns an
\* output of shape (batch_size, out_num) whose row i carries the margin-adjusted
\* logit at column labels[i] and the plain scaled cosine elsewhere.
C4_OutputPerExample ==
  (/\ call.op = "arcface_loss"
   /\ call.status = "ok"
   /\ Rank(call.args.labels) = 2) =>
    LET a == call.args
        B == a.embedding.shape[1]
        weights == IF a.weights = None THEN store["arcface_loss/weights"] ELSE a.weights
        cos_t == arcface_cos_t(a.embedding, weights)
        cos_mt_temp == arcface_cos_mt_temp(cos_t, a.s, a.m, a.limit_to_pi)
    IN  /\ call.value.shape = <<B, a.out_num>>
        /\ \A i \in 0..(B - 1), k \in 0..(a.out_num - 1) :
             At(call.value, <<i, k>>) =
               IF k = a.labels.data[i + 1] THEN At(cos_mt_temp, <<i, k>>)
               ELSE FMul(a.s, At(cos_t, <<i, k>>))

\* What the code does where C2, C3 and C4 fail: two or more examples are
\* normalised and scored, the CTC loss has one entry per example, and
\* (batch_size, 1) labels give arcface_loss an output of rank 3; labels of shape
\* (batch_size,) give the output C4 describes.
CtcAsBuilt ==
  call.op = "ctc_lambda_loss" =>
    LET B == call.args.logits.shape[1]
    IN  /\ B >= 2 => call.status = "ok"
        /\ call.status = "ok" => call.value.shape = <<B>>

ArcfaceAsBuilt ==
  (call.op = "arcface_loss" /\ call.status = "ok") =>
    LET a == call.args
        B == a.embedding.shape[1]
        weights == IF a.weights = None THEN store["arcface_loss/weights"] ELSE a.weights
        cos_t == arcface_cos_t(a.embedding, weights)
        cos_mt_temp == arcface_cos_mt_temp(cos_t, a.s, a.m, a.limit_to_pi)
    IN  IF Rank(a.labels) = 2
        THEN call.value.shape = <<B, B, a.out_num>>
        ELSE /\ call.value.shape = <<B, a.out_num>>
             /\ \A i \in 0..(B - 1), k \in 0..(a.out_num - 1) :
                  At(call.value, <<i, k>>) =
                    IF k = a.labels.data[i + 1] THEN At(cos_mt_temp, <<i, k>>)
                    ELSE FMul(a.s, At(cos_t, <<i, k>>))

\* C5: crf_log_likelihood returns (loss, transition_params): the loss is the
\* mean over the batch of the negated log-likelihood of each sequence under
\* the returned transition matrix, which is the transitions argument when one
\* is passed (and the store's variable otherwise).
C5_MeanNegatedLogLikelihood ==
  (call.op = "crf_log_likelihood" /\ call.status = "ok") =>
    LET a == call.args
        r == call.value
        B == a.tags_scores.shape[1]
        ll == [b \in 1..B |-> CrfExample(a.tags_scores, a.labels, b - 1,
                                         a.input_length.data[b], r.transition_params)]
    IN  /\ r.loss.den # 0
        /\ r.loss.num * B = r.loss.den * (0 - SumSeq(ll))
        /\ a.transitions # None => r.transition_params = a.transitions
        /\ a.transitions = None =>
             /\ Has(store, "transitions")
             /\ r.transition_params = store["transitions"]

\* C5's case: a batch of two sequences scored under the transitions passed,
\* with a loss that is not zero.
C5_Witness ==
  /\ call.op = "crf_log_likelihood"
  /\ call.status = "ok"
  /\ call.args.transitions # None
  /\ call.args.tags_scores.shape[1] = 2
  /\ call.value.loss.num > 0

====
